---- MODULE Spec2Model ----
(***************************************************************************)
(* db-rag: the query orchestrator, the structured query agent, the vector  *)
(* search agent, the metadata catalog manager and the shared data-access   *)
(* layer (one psycopg2 connection held by a DatabaseManager).              *)
(*                                                                         *)
(* One caller drives the system: it starts an operation, the operation     *)
(* runs step by step (one step per external call: model provider or        *)
(* relational store), ends in "returned" or "raised", and the caller       *)
(* collects the outcome before starting the next operation.                *)
(***************************************************************************)
EXTENDS Integers, Sequences, FiniteSets, TLC

\* ------------------------------------------------------------------ bounds
MaxDocs == 1
MaxToolCalls == 2

\* ------------------------------------------------------- program constants
max_context_tables == 5
max_vector_results == 3

None == "none"
TableNames == {"orders", "users"}
WriteTargets == {"catalog", "documents"}

Min(a, b) == IF a < b THEN a ELSE b

\* ================================================================ store ==
\* The relational store: the table-metadata catalog (rows in heap order) and
\* the documents table (its number of rows). The application tables appear
\* by name only (TableNames): no operation modelled here reads their rows.

\* The text the text-generation model can answer for a table description.
GeneratedTexts == {[description |-> <<"generated description">>,
                    business_context |-> <<"generated business context">>]}

\* A plausible slip: the except branch returns empty texts.
FallbackIsEmpty(table_name) ==
    [description |-> <<>>, business_context |-> <<>>]

FallbackDescription(table_name) ==
    [description |-> <<"Database table:", table_name>>,
     business_context |-> <<"Stores structured data for analytical queries">>]

\* generate_table_description: the parsed answer of the text-generation
\* model, or the fallback when the call raised.
generate_table_description(table_name, provider_ok, answer) ==
    IF provider_ok THEN answer ELSE FallbackDescription(table_name)

\* searchable_text = f"{table_name} {description} {business_context}"
SearchableText(table_name, descriptions) ==
    <<table_name, descriptions.description, descriptions.business_context>>

\* The embedding provider's answer for a text (deterministic per text).
EmbeddingOf(text) == <<"embedding", text>>

CatalogEntry(table_name, descriptions, embedding) ==
    [table_name |-> table_name,
     table_description |-> descriptions.description,
     business_context |-> descriptions.business_context,
     description_embedding |-> embedding]

EmptyStore == [catalog |-> <<>>, docs |-> 0]

EntriesFor(store, table_name) ==
    {i \in 1..Len(store.catalog) : store.catalog[i].table_name = table_name}

\* ----------------------------------------------------------- connection --
\* psycopg2 connection, autocommit off: the first statement opens a
\* transaction, a failing statement aborts it, and every statement on an
\* aborted transaction fails until rollback.
NewConnection == [committed |-> EmptyStore, working |-> EmptyStore, txn |-> "idle"]

Begin(d) == IF d.txn = "idle" THEN [d EXCEPT !.txn = "open"] ELSE d

Abort(d) == [d EXCEPT !.txn = "aborted"]

Commit(d) ==
    IF d.txn = "open"
    THEN [committed |-> d.working, working |-> d.working, txn |-> "idle"]
    ELSE [committed |-> d.committed, working |-> d.committed, txn |-> "idle"]

Rollback(d) == [committed |-> d.committed, working |-> d.committed, txn |-> "idle"]

\* A statement fails when the transaction is already aborted or when the
\* store reports an error for it.
StatementFails(d, store_error) == d.txn = "aborted" \/ store_error

\* --------------------------------------------------- generated query text --
\* What the generation model can return as "sql", by what the store does
\* with it:
\*   select          a well-formed read
\*   syntax_error    malformed: rejected when parsed
\*   runtime_error   plans, fails when run (e.g. division by zero)
\*   dml             DELETE FROM <target> (no result set)
\*   dml_returning   DELETE FROM <target> RETURNING ... (has a result set)
\*   update_returning  UPDATE <catalog> SET table_description = '...',
\*                   business_context = '...' WHERE table_name = 'orders'
\*                   RETURNING ...
\*   stacked_dml     "SELECT ...; DELETE FROM <target>": EXPLAIN covers the
\*                   first statement only, the last one has no result set
\*   stacked_error   "SELECT ...; DELETE FROM <target>; <failing statement>"
NoSql == [kind |-> None, target |-> None]

SqlTexts ==
    {[kind |-> k, target |-> None] : k \in {"select", "syntax_error", "runtime_error"}}
    \cup {[kind |-> k, target |-> "catalog"] :
             k \in {"dml", "stacked_error", "update_returning"}}
    \cup {[kind |-> k, target |-> t] :
             k \in {"dml_returning", "stacked_dml"}, t \in WriteTargets}

\* The write a data-modifying statement makes in the open transaction
\* (DELETE FROM <target>, or the UPDATE of one entry's texts).
Write(store, q) ==
    IF q.kind = "update_returning"
    THEN [store EXCEPT !.catalog =
            [i \in 1..Len(@) |->
                IF @[i].table_name = "orders"
                THEN [@[i] EXCEPT !.table_description = <<"rewritten description">>,
                                  !.business_context = <<"rewritten context">>]
                ELSE @[i]]]
    ELSE IF q.target = "catalog" THEN [store EXCEPT !.catalog = <<>>]
    ELSE [store EXCEPT !.docs = 0]

\* cursor.description is not None after the (last) statement
HasDescription(q) ==
    q.kind \in {"select", "dml_returning", "update_returning"}

\* str(e) of the exceptions a statement can end in. A syntax error quotes the
\* line of the text that was sent, which for validation begins with EXPLAIN.
StoreErrors == {"current transaction is aborted", "division by zero",
                "syntax error LINE 1: <query>", "syntax error LINE 1: EXPLAIN <query>",
                "'NoneType' object is not iterable"}

\* cursor.execute(f"EXPLAIN {query}")
RunExplain(d, q) ==
    IF d.txn = "aborted"
    THEN [db |-> d, raised |-> TRUE, error |-> "current transaction is aborted"]
    ELSE LET b == Begin(d)
             w == [b EXCEPT !.working = Write(@, q)]
         IN CASE q.kind = "syntax_error" ->
                     [db |-> Abort(b), raised |-> TRUE,
                      error |-> "syntax error LINE 1: EXPLAIN <query>"]
              [] q.kind = "stacked_error" ->
                     [db |-> Abort(w), raised |-> TRUE, error |-> "division by zero"]
              [] q.kind = "stacked_dml" -> [db |-> w, raised |-> FALSE, error |-> None]
              [] OTHER -> [db |-> b, raised |-> FALSE, error |-> None]

\* cursor.execute(query)
RunStatement(d, q) ==
    IF d.txn = "aborted"
    THEN [db |-> d, raised |-> TRUE, error |-> "current transaction is aborted"]
    ELSE LET b == Begin(d)
             w == [b EXCEPT !.working = Write(@, q)]
         IN CASE q.kind = "syntax_error" ->
                     [db |-> Abort(b), raised |-> TRUE,
                      error |-> "syntax error LINE 1: <query>"]
              [] q.kind = "runtime_error" ->
                     [db |-> Abort(b), raised |-> TRUE, error |-> "division by zero"]
              [] q.kind = "stacked_error" ->
                     [db |-> Abort(w), raised |-> TRUE, error |-> "division by zero"]
              [] q.kind \in {"dml", "dml_returning", "update_returning", "stacked_dml"} ->
                     [db |-> w, raised |-> FALSE, error |-> None]
              [] OTHER -> [db |-> b, raised |-> FALSE, error |-> None]

\* DatabaseManager.validate_query: (is_valid, error)
validate_query(d, q) ==
    LET r == RunExplain(d, q)
    IN IF r.raised THEN [db |-> Rollback(r.db), is_valid |-> FALSE, error |-> r.error]
       ELSE [db |-> Commit(r.db), is_valid |-> TRUE, error |-> None]

\* The rows a statement with a result set returns: the rows it read (a
\* select, here over the catalog) or the rows it wrote (RETURNING).
RowsReturned(store, q) ==
    IF q.kind = "update_returning" THEN Cardinality(EntriesFor(store, "orders"))
    ELSE IF q.target = "documents" THEN store.docs
    ELSE Len(store.catalog)

\* A plausible slip: the handler re-raises without conn.rollback().
execute_query_without_rollback(d, q) ==
    LET r == RunStatement(d, q)
    IN IF r.raised \/ ~HasDescription(q)
       THEN [db |-> r.db, raised |-> TRUE, row_count |-> 0,
             error |-> IF r.raised THEN r.error
                       ELSE "'NoneType' object is not iterable"]
       ELSE [db |-> Commit(r.db), raised |-> FALSE,
             row_count |-> RowsReturned(d.working, q), error |-> None]

\* DatabaseManager.execute_query: rows, or raises
execute_query(d, q) ==
    LET r == RunStatement(d, q)
    IN IF r.raised \/ ~HasDescription(q)
       THEN [db |-> Rollback(r.db), raised |-> TRUE, row_count |-> 0,
             error |-> IF r.raised THEN r.error
                       ELSE "'NoneType' object is not iterable"]
       ELSE [db |-> Commit(r.db), raised |-> FALSE,
             row_count |-> RowsReturned(d.working, q), error |-> None]

\* ================================================================ state ==
VARIABLES
    rag_config,      \* RAGConfig: the three enable_* switches
    db,              \* the DatabaseManager's connection and the store behind it
    pc,              \* where the running operation stands ("idle": none runs)
    call,            \* the running operation and its arguments
    sync,            \* add_table_to_catalog: exists, descriptions, embedding, and
                     \* whether generate_table_description logged a failure
    routing_result,  \* OrchestratorAgent.query: what route_query returned
    idx,             \* execute_agent_calls: the decision being dispatched
    agent_results,   \* execute_agent_calls: results["sql_results" / "vector_results"]
    sql,             \* SQLAgent.query: relevant_tables, sql_query
    context,         \* synthesize_response: the context given to the model
    result,          \* what the finished operation returned, or that it raised
    log,             \* the calls the running operation has made, in order
    before,          \* the committed store when the running operation started
    \* the procedures and processes studied on their own (each in its own
    \* specification, further down)
    disc,            \* discover_relevant_tables: arguments, locals, outcome
    catalog_rows,    \* the committed catalog rows every process's connection sees
    procs,           \* the processes syncing the catalog, each with its connection
    srch,            \* VectorSearchAgent.search: arguments, locals, outcome
    batch,           \* generate_embeddings_batch: arguments, locals, outcome
    chunking         \* chunk_text: arguments, locals, outcome

mainVars == <<rag_config, db, pc, call, sync, routing_result, idx, agent_results,
              sql, context, result, log, before>>

studyVars == <<disc, catalog_rows, procs, srch, batch, chunking>>

vars == <<mainVars, studyVars>>

orchVars == <<routing_result, idx, agent_results, context>>

NoCall == [op |-> None, table_name |-> None, force_update |-> FALSE]
NoSync == [exists |-> FALSE, generation_error |-> FALSE, descriptions |-> None,
           embedding |-> None]
NoRouting == [success |-> FALSE, routing_decisions |-> <<>>, error |-> None,
              message |-> None]
NoSqlLocals == [relevant_tables |-> <<>>, sql_query |-> NoSql]
NoContext == [built |-> FALSE, sql |-> FALSE, vector |-> FALSE, documents |-> 0]
NoResult == [outcome |-> None, value |-> None]

\* results["sql_results"] = None / a record returned by SQLAgent.query
NoSqlResult == [present |-> FALSE, success |-> FALSE, error |-> None,
                sql |-> NoSql, results |-> None, row_count |-> 0]
\* results["vector_results"] = None / a record returned by VectorSearchAgent.query
NoVectorResult == [present |-> FALSE, success |-> FALSE, error |-> None, count |-> 0]
NoAgentResults == [sql_results |-> NoSqlResult, vector_results |-> NoVectorResult]

Configs == [enable_sql_search : BOOLEAN, enable_vector_search : BOOLEAN,
            enable_query_validation : BOOLEAN]

\* The values of the study variables wherever their procedure is not running.
NoStudy == [pc |-> None]

StudiesIdle ==
    /\ disc = NoStudy
    /\ catalog_rows = <<>>
    /\ procs = NoStudy
    /\ srch = NoStudy
    /\ batch = NoStudy
    /\ chunking = NoStudy

Init ==
    /\ StudiesIdle
    /\ rag_config \in Configs
    /\ db = NewConnection
    /\ pc = "idle"
    /\ call = NoCall
    /\ sync = NoSync
    /\ routing_result = NoRouting
    /\ idx = 0
    /\ agent_results = NoAgentResults
    /\ sql = NoSqlLocals
    /\ context = NoContext
    /\ result = NoResult
    /\ log = <<>>
    /\ before = EmptyStore

\* The caller starts an operation on an idle system.
Start(op, table_name, force_update, first) ==
    /\ pc = "idle"
    /\ pc' = first
    /\ call' = [op |-> op, table_name |-> table_name, force_update |-> force_update]
    /\ before' = db.committed
    /\ log' = <<>>
    /\ result' = NoResult
    /\ UNCHANGED <<studyVars, rag_config, db, sync, orchVars, sql>>

\* The caller has the outcome of the finished operation.
Collect ==
    /\ pc \in {"returned", "raised"}
    /\ pc' = "idle"
    /\ call' = NoCall
    /\ sync' = NoSync
    /\ routing_result' = NoRouting
    /\ idx' = 0
    /\ agent_results' = NoAgentResults
    /\ sql' = NoSqlLocals
    /\ context' = NoContext
    /\ result' = NoResult
    /\ log' = <<>>
    /\ before' = db.committed
    /\ UNCHANGED <<studyVars, rag_config, db>>

\* ==================================================== metadata catalog ==
\* UPDATE ... WHERE table_name = %s
UpdateEntry(store, entry) ==
    [store EXCEPT !.catalog =
        [i \in 1..Len(@) |-> IF @[i].table_name = entry.table_name THEN entry ELSE @[i]]]

\* A plausible slip: the catalog table created without the UNIQUE constraint.
InsertNeverViolates(store, entry) == FALSE

\* INSERT INTO catalog ... (table_name is UNIQUE)
InsertViolatesUnique(store, entry) == EntriesFor(store, entry.table_name) # {}

InsertEntry(store, entry) == [store EXCEPT !.catalog = Append(@, entry)]

\* "if exists and not force_update: return"
SkipsNever(exists, force_update) == FALSE

\* A plausible slip: the force flag is not consulted.
SkipsWhenExists(exists, force_update) == exists

SkipsExisting(exists, force_update) == exists /\ ~force_update

SyncTable(t, f) == Start("sync_table", t, f, "sync_check")

\* add_table_to_catalog, up to the model calls: SELECT id, the early return,
\* get_table_context_string and get_sample_data.
SyncCheck ==
    /\ pc = "sync_check"
    /\ \E select_error \in BOOLEAN, sample_error \in BOOLEAN :
         LET exists == EntriesFor(db.working, call.table_name) # {}
         IN IF StatementFails(db, select_error)
            THEN /\ db' = Rollback(db)
                 /\ pc' = "raised"
                 /\ result' = [outcome |-> "raised", value |-> None]
                 /\ UNCHANGED sync
            ELSE IF SkipsExisting(exists, call.force_update)
            THEN /\ db' = Begin(db)
                 /\ pc' = "returned"
                 /\ result' = [outcome |-> "returned", value |-> "skipped"]
                 /\ UNCHANGED sync
            ELSE IF sample_error
            THEN /\ db' = Rollback(db)
                 /\ pc' = "raised"
                 /\ result' = [outcome |-> "raised", value |-> None]
                 /\ UNCHANGED sync
            ELSE /\ db' = Begin(db)
                 /\ pc' = "sync_describe"
                 /\ sync' = [sync EXCEPT !.exists = exists]
                 /\ UNCHANGED result
    /\ log' = Append(log, "select_entry")
    /\ UNCHANGED <<studyVars, rag_config, call, orchVars, sql, before>>

\* generate_table_description: the text-generation call, or the fallback
\* description when it fails.
SyncDescribe ==
    /\ pc = "sync_describe"
    /\ \E provider_ok \in BOOLEAN, answer \in GeneratedTexts :
         sync' = [sync EXCEPT
                    !.descriptions =
                        generate_table_description(call.table_name, provider_ok, answer),
                    !.generation_error = ~provider_ok]
    /\ log' = Append(log, "text_generation")
    /\ pc' = "sync_embed"
    /\ UNCHANGED <<studyVars, rag_config, db, call, orchVars, sql, result, before>>

\* generate_embedding(searchable_text); a provider error is re-raised and
\* add_table_to_catalog rolls back.
SyncEmbed ==
    /\ pc = "sync_embed"
    /\ log' = Append(log, "embedding")
    /\ \E provider_ok \in BOOLEAN :
         IF provider_ok
         THEN /\ sync' = [sync EXCEPT !.embedding =
                    EmbeddingOf(SearchableText(call.table_name, sync.descriptions))]
              /\ pc' = "sync_upsert"
              /\ UNCHANGED <<db, result>>
         ELSE /\ db' = Rollback(db)
              /\ pc' = "raised"
              /\ result' = [outcome |-> "raised", value |-> None]
              /\ UNCHANGED sync
    /\ UNCHANGED <<studyVars, rag_config, call, orchVars, sql, before>>

\* UPDATE or INSERT, then commit; rollback and re-raise on any error.
SyncUpsert ==
    /\ pc = "sync_upsert"
    /\ log' = Append(log, "upsert")
    /\ \E store_error \in BOOLEAN :
         LET entry == CatalogEntry(call.table_name, sync.descriptions, sync.embedding)
             fails == \/ StatementFails(db, store_error)
                      \/ ~sync.exists /\ InsertViolatesUnique(db.working, entry)
             written == IF sync.exists THEN UpdateEntry(db.working, entry)
                        ELSE InsertEntry(db.working, entry)
         IN IF fails
            THEN /\ db' = Rollback(db)
                 /\ pc' = "raised"
                 /\ result' = [outcome |-> "raised", value |-> None]
            ELSE /\ db' = Commit([Begin(db) EXCEPT !.working = written])
                 /\ pc' = "returned"
                 /\ result' = [outcome |-> "returned", value |-> "synced"]
    /\ UNCHANGED <<studyVars, rag_config, call, sync, orchVars, sql, before>>

\* ================================================= vector search agent ==
AddDocument ==
    /\ db.committed.docs < MaxDocs
    /\ Start("add_document", None, FALSE, "doc_embed")

\* _generate_embedding(content): raises on a provider error, before the
\* connection is touched.
DocEmbed ==
    /\ pc = "doc_embed"
    /\ log' = Append(log, "embedding")
    /\ \E provider_ok \in BOOLEAN :
         IF provider_ok
         THEN pc' = "doc_insert" /\ UNCHANGED result
         ELSE pc' = "raised" /\ result' = [outcome |-> "raised", value |-> None]
    /\ UNCHANGED <<studyVars, rag_config, db, call, sync, orchVars, sql, before>>

\* INSERT ... RETURNING id, commit; rollback and re-raise on error.
DocInsert ==
    /\ pc = "doc_insert"
    /\ log' = Append(log, "insert_document")
    /\ \E store_error \in BOOLEAN :
         IF StatementFails(db, store_error)
         THEN /\ db' = Rollback(db)
              /\ pc' = "raised"
              /\ result' = [outcome |-> "raised", value |-> None]
         ELSE /\ db' = Commit([Begin(db) EXCEPT !.working.docs = @ + 1])
              /\ pc' = "returned"
              /\ result' = [outcome |-> "returned", value |-> "doc_id"]
    /\ UNCHANGED <<studyVars, rag_config, call, sync, orchVars, sql, before>>

\* An agent call inside OrchestratorAgent.query raises: execute_agent_calls and
\* query have no handler, so the whole operation raises.
OperationRaises ==
    /\ pc' = "raised"
    /\ result' = [outcome |-> "raised", value |-> None]

\* vector_agent.query: search(), with every exception turned into a failure
\* record. search() itself has no rollback (finally: cursor.close()).
VectorSearch ==
    /\ pc = "vector_search"
    /\ \E provider_ok \in BOOLEAN, store_error \in BOOLEAN :
         LET failed == ~provider_ok \/ StatementFails(db, store_error)
             r == IF failed
                  THEN [present |-> TRUE, success |-> FALSE, error |-> "error", count |-> 0]
                  ELSE [present |-> TRUE, success |-> TRUE, error |-> None,
                        count |-> Min(db.working.docs, max_vector_results)]
         IN /\ db' = IF ~provider_ok THEN db
                     ELSE IF StatementFails(db, store_error) THEN Abort(Begin(db))
                     ELSE Begin(db)
            /\ agent_results' = [agent_results EXCEPT !.vector_results = r]
            /\ log' = log \o (IF provider_ok THEN <<"embedding", "search">>
                              ELSE <<"embedding">>) \o <<"vector_agent_done">>
    /\ idx' = idx + 1
    /\ pc' = "dispatch"
    /\ UNCHANGED <<studyVars, rag_config, call, sync, routing_result, sql, context, result, before>>

\* ================================================ structured query agent ==
\* A question, by the catalog tables it matches: above the similarity floor
\* (vector) and by substring (keyword).
Questions == [vector : SUBSET TableNames, keyword : SUBSET TableNames]

Limit(rows, n) == SubSeq(rows, 1, Min(Len(rows), n))

\* discover_relevant_tables, after the embedding call: the three tiers.
discover_relevant_tables(store, question, max_tables) ==
    LET InVector(e) == e.table_name \in question.vector
        InKeyword(e) == e.table_name \in question.keyword
        tier1 == Limit(SelectSeq(store.catalog, InVector), max_tables)
        tier2 == Limit(SelectSeq(store.catalog, InKeyword), max_tables)
        tier3 == Limit(store.catalog, max_tables)
    IN IF Len(tier1) # 0 THEN tier1
       ELSE IF Len(tier2) # 0 THEN tier2
       ELSE tier3

TableNamesOf(rows) == [i \in 1..Len(rows) |-> rows[i].table_name]

SqlQuery == Start("sql_query", None, FALSE, "sql_discover")

\* SQLAgent.query returns record r to its caller: execute_agent_calls stores
\* it and goes on with the next decision; a direct caller gets it.
SqlReturns(r) ==
    IF call.op = "orchestrator_query"
    THEN /\ agent_results' = [agent_results EXCEPT !.sql_results = r]
         /\ idx' = idx + 1
         /\ pc' = "dispatch"
         /\ UNCHANGED <<routing_result, context, result>>
    ELSE /\ pc' = "returned"
         /\ result' = [outcome |-> "returned", value |-> r]
         /\ UNCHANGED orchVars

SqlFailure(error, q) ==
    [present |-> TRUE, success |-> FALSE, error |-> error, sql |-> q,
     results |-> None, row_count |-> 0]

\* Step 1: discover_tables. Outside any try block: an embedding-provider or
\* store error propagates out of SQLAgent.query.
SqlDiscover ==
    /\ pc = "sql_discover"
    /\ \E provider_ok \in BOOLEAN, store_error \in BOOLEAN, question \in Questions :
         IF ~provider_ok
         THEN /\ log' = Append(log, "embedding")
              /\ OperationRaises
              /\ UNCHANGED <<db, sql, orchVars>>
         ELSE IF StatementFails(db, store_error)
         THEN /\ log' = log \o <<"embedding", "discover">>
              /\ db' = Abort(Begin(db))
              /\ OperationRaises
              /\ UNCHANGED <<sql, orchVars>>
         ELSE LET relevant_tables ==
                      discover_relevant_tables(db.working, question, max_context_tables)
              IN /\ db' = Begin(db)
                 /\ IF Len(relevant_tables) = 0
                    THEN /\ log' = log \o <<"embedding", "discover", "sql_agent_done">>
                         /\ SqlReturns(SqlFailure("No relevant tables found for this query",
                                                  NoSql))
                         /\ UNCHANGED sql
                    ELSE /\ log' = log \o <<"embedding", "discover">>
                         /\ sql' = [sql EXCEPT !.relevant_tables =
                                        TableNamesOf(relevant_tables)]
                         /\ pc' = "sql_generate"
                         /\ UNCHANGED <<orchVars, result>>
    /\ UNCHANGED <<studyVars, rag_config, call, sync, before>>

\* Step 2: generate_sql, inside try: any failure becomes a failure record.
SqlGenerate ==
    /\ pc = "sql_generate"
    /\ \E answer \in SqlTexts \cup {NoSql} :
         IF answer = NoSql
         THEN /\ log' = log \o <<"text_generation", "sql_agent_done">>
              /\ SqlReturns(SqlFailure("Failed to generate SQL", NoSql))
              /\ sql' = NoSqlLocals
         ELSE /\ log' = Append(log, "text_generation")
              /\ sql' = [sql EXCEPT !.sql_query = answer]
              /\ pc' = IF rag_config.enable_query_validation
                       THEN "sql_validate" ELSE "sql_execute"
              /\ UNCHANGED <<orchVars, result>>
    /\ UNCHANGED <<studyVars, rag_config, db, call, sync, before>>

\* validate_and_execute, "# Execute the query": execution_result from what
\* execute_query did (e).
ExecutionResult(e) ==
    IF e.raised
    THEN [valid |-> FALSE, error |-> e.error, results |-> None, row_count |-> 0]
    ELSE [valid |-> TRUE, error |-> None, results |-> "rows", row_count |-> e.row_count]

\* A plausible slip: the second copy of the handler drops the error text.
DirectResultWithoutError(e) ==
    IF e.raised
    THEN [valid |-> FALSE, error |-> None, results |-> None, row_count |-> 0]
    ELSE [valid |-> TRUE, error |-> None, results |-> "rows", row_count |-> e.row_count]

\* SQLAgent.query, validation disabled: its own try/except around
\* execute_query.
DirectExecutionResult(e) ==
    IF e.raised
    THEN [valid |-> FALSE, error |-> e.error, results |-> None, row_count |-> 0]
    ELSE [valid |-> TRUE, error |-> None, results |-> "rows", row_count |-> e.row_count]

\* Step 4: the record SQLAgent.query returns for execution_result x.
QueryRecord(x, q) ==
    [present |-> TRUE, success |-> x.valid, error |-> x.error, sql |-> q,
     results |-> x.results, row_count |-> x.row_count]

\* validate_and_execute: "if not is_valid: return" before the execution
ExecutesUnchecked(is_valid) == TRUE

ExecutesQuery(is_valid) == is_valid

\* Step 3, validation enabled: validate_and_execute up to the execution.
SqlValidate ==
    /\ pc = "sql_validate"
    /\ LET v == validate_query(db, sql.sql_query)
       IN /\ db' = v.db
          /\ IF ExecutesQuery(v.is_valid)
             THEN /\ log' = Append(log, "validate")
                  /\ pc' = "sql_execute"
                  /\ UNCHANGED <<sql, orchVars, result>>
             ELSE /\ log' = log \o <<"validate", "sql_agent_done">>
                  /\ SqlReturns(QueryRecord([valid |-> FALSE, error |-> v.error,
                                             results |-> None, row_count |-> 0],
                                            sql.sql_query))
                  /\ sql' = NoSqlLocals
    /\ UNCHANGED <<studyVars, rag_config, call, sync, before>>

\* Step 3, the execution (in validate_and_execute, or directly when
\* validation is disabled), inside try; then step 4, the returned record.
SqlExecute ==
    /\ pc = "sql_execute"
    /\ LET e == execute_query(db, sql.sql_query)
       IN /\ db' = e.db
          /\ SqlReturns(QueryRecord(IF rag_config.enable_query_validation
                                    THEN ExecutionResult(e)
                                    ELSE DirectExecutionResult(e),
                                    sql.sql_query))
    /\ log' = log \o <<"execute", "sql_agent_done">>
    /\ sql' = NoSqlLocals
    /\ UNCHANGED <<studyVars, rag_config, call, sync, before>>

\* ========================================================= orchestrator ==
ToolNames == {"query_structured_data", "search_unstructured_documents", "other_tool"}

ToolCallLists == UNION {[1..n -> ToolNames] : n \in 1..MaxToolCalls}

\* What the routing model can answer: tool calls, free text, or an error.
RoutingResponses ==
    {[kind |-> "tool_calls", tool_calls |-> t] : t \in ToolCallLists}
    \cup {[kind |-> k, tool_calls |-> <<>>] : k \in {"text", "error"}}

route_query(response) ==
    CASE response.kind = "tool_calls" ->
             [success |-> TRUE, routing_decisions |-> response.tool_calls,
              error |-> None, message |-> None]
      [] response.kind = "text" ->
             [success |-> FALSE, routing_decisions |-> <<>>,
              error |-> "Unable to route query to specific agent",
              message |-> "free text reply"]
      [] OTHER ->
             [success |-> FALSE, routing_decisions |-> <<>>,
              error |-> "exception", message |-> "absent"]

OrchestratorQuery == Start("orchestrator_query", None, FALSE, "route")

\* "if not routing_result.get('success'): return {...}"
ReturnsAfterRoutingNever(r) == FALSE

ReturnsAfterRouting(r) == ~r.success

\* Step 1 of query: route_query, and the immediate return on routing failure.
Route ==
    /\ pc = "route"
    /\ log' = Append(log, "routing")
    /\ \E response \in RoutingResponses :
         LET r == route_query(response)
         IN /\ routing_result' = r
            /\ IF ReturnsAfterRouting(r)
               THEN /\ pc' = "returned"
                    /\ result' =
                         [outcome |-> "returned",
                          value |-> [success |-> FALSE,
                                     error |-> r.error,
                                     answer |-> IF r.message = "absent"
                                                THEN "Unable to process query"
                                                ELSE r.message,
                                     sql_results |-> NoSqlResult,
                                     vector_results |-> NoVectorResult]]
                    /\ UNCHANGED idx
               ELSE /\ pc' = "dispatch"
                    /\ idx' = 1
                    /\ UNCHANGED result
    /\ UNCHANGED <<studyVars, rag_config, db, call, sync, agent_results, sql, context, before>>

\* execute_agent_calls: the for loop is over when every decision was taken
LoopEndsAfterFirst(i, decisions) == i > 1

LoopEnds(i, decisions) == i > Len(decisions)

\* A plausible slip: the capability switch is not consulted.
DispatchesWhenNamed(agent_name, tool, enabled) == agent_name = tool

\* "if agent_name == <tool> and self.rag_config.enable_<capability>"
Dispatches(agent_name, tool, enabled) == agent_name = tool /\ enabled

\* Step 2 of query: execute_agent_calls, one decision at a time.
Dispatch ==
    /\ pc = "dispatch"
    /\ IF LoopEnds(idx, routing_result.routing_decisions)
       THEN /\ pc' = "synthesize"
            /\ UNCHANGED <<idx, log>>
       ELSE LET agent_name == routing_result.routing_decisions[idx]
            IN IF Dispatches(agent_name, "query_structured_data",
                             rag_config.enable_sql_search)
               THEN /\ pc' = "sql_discover"
                    /\ log' = Append(log, "sql_agent")
                    /\ UNCHANGED idx
               ELSE IF Dispatches(agent_name, "search_unstructured_documents",
                                  rag_config.enable_vector_search)
               THEN /\ pc' = "vector_search"
                    /\ log' = Append(log, "vector_agent")
                    /\ UNCHANGED idx
               ELSE /\ idx' = idx + 1
                    /\ UNCHANGED <<pc, log>>
    /\ UNCHANGED <<studyVars, rag_config, db, call, sync, routing_result, agent_results, sql,
                   context, result, before>>

\* synthesize_response: the context built from the successful results
BuildContextOfAllResults(results) ==
    [built |-> TRUE,
     sql |-> results.sql_results.present,
     vector |-> results.vector_results.present,
     documents |-> results.vector_results.count]

BuildContext(results) ==
    [built |-> TRUE,
     sql |-> results.sql_results.present /\ results.sql_results.success,
     vector |-> results.vector_results.present /\ results.vector_results.success,
     documents |-> IF results.vector_results.present /\ results.vector_results.success
                   THEN results.vector_results.count ELSE 0]

\* A plausible slip: the handler returns the error note without the context.
SynthesisErrorNoteOnly(provider_ok) ==
    IF provider_ok THEN "synthesized answer" ELSE "error note"

\* synthesize_response's return value: the model's answer, or in the except
\* branch "I found the following information but encountered an error
\* synthesizing the response: {context}"
SynthesisAnswer(provider_ok) ==
    IF provider_ok THEN "synthesized answer" ELSE "error note and context"

\* Steps 3 and 4 of query: synthesize_response (one model call, whatever the
\* context holds) and the returned record.
Synthesize ==
    /\ pc = "synthesize"
    /\ context' = BuildContext(agent_results)
    /\ log' = Append(log, "synthesis")
    /\ \E provider_ok \in BOOLEAN :
         result' = [outcome |-> "returned",
                    value |-> [success |-> TRUE,
                               error |-> None,
                               answer |-> SynthesisAnswer(provider_ok),
                               sql_results |-> agent_results.sql_results,
                               vector_results |-> agent_results.vector_results]]
    /\ pc' = "returned"
    /\ UNCHANGED <<studyVars, rag_config, db, call, sync, routing_result, idx, agent_results,
                   sql, before>>

\* ======================================================== specification ==
Next ==
    \/ \E t \in TableNames, f \in BOOLEAN : SyncTable(t, f)
    \/ SyncCheck
    \/ SyncDescribe
    \/ SyncEmbed
    \/ SyncUpsert
    \/ AddDocument
    \/ DocEmbed
    \/ DocInsert
    \/ OrchestratorQuery
    \/ Route
    \/ Dispatch
    \/ VectorSearch
    \/ SqlQuery
    \/ SqlDiscover
    \/ SqlGenerate
    \/ SqlValidate
    \/ SqlExecute
    \/ Synthesize
    \/ Collect

Spec == Init /\ [][Next]_vars

\* =============================================================== claims ==
InLog(event) == \E i \in 1..Len(log) : log[i] = event

Count(events, event) == Cardinality({i \in 1..Len(events) : events[i] = event})

Finished == pc \in {"returned", "raised"}

InOrchestratorQuery == call.op = "orchestrator_query"

InSqlQuery == call.op = "sql_query"

\* The decisions of the routing result that execute_agent_calls dispatches.
RoutedTo(agent_name) ==
    {i \in 1..Len(routing_result.routing_decisions) :
        routing_result.routing_decisions[i] = agent_name}

SqlRouted == rag_config.enable_sql_search /\ RoutedTo("query_structured_data") # {}

VectorRouted ==
    rag_config.enable_vector_search /\ RoutedTo("search_unstructured_documents") # {}

\* C1: once the router has sent the question to one or both agents, no
\* failure inside a retrieval path makes OrchestratorAgent.query raise, and
\* every routed agent is invoked: query ends by returning a result record.
C1_PathFailureNeverEscapes ==
    (InOrchestratorQuery /\ Finished /\ routing_result.success) =>
        /\ pc = "returned"
        /\ result.outcome = "returned"
        /\ SqlRouted => InLog("sql_agent")
        /\ VectorRouted => InLog("vector_agent")

\* C2: routed to both paths, the structured path failed and the unstructured
\* path succeeded: query returns success = true carrying sql_results.success
\* = false and vector_results.success = true, and the synthesis context holds
\* the unstructured evidence only.
C2_PartialFailureComposes ==
    (/\ InOrchestratorQuery /\ pc = "returned" /\ routing_result.success
     /\ agent_results.sql_results.present /\ ~agent_results.sql_results.success
     /\ agent_results.vector_results.present /\ agent_results.vector_results.success)
    => /\ result.value.success
       /\ result.value.sql_results.present /\ ~result.value.sql_results.success
       /\ result.value.vector_results.present /\ result.value.vector_results.success
       /\ context.built /\ ~context.sql /\ context.vector
       /\ context.documents = agent_results.vector_results.count

\* C2 witness: the structured path failed at execution (a query that plans
\* and fails when run), the unstructured path returned a document.
C2_Witness ==
    /\ InOrchestratorQuery /\ pc = "returned"
    /\ agent_results.sql_results.present
    /\ agent_results.sql_results.sql.kind = "runtime_error"
    /\ agent_results.sql_results.error = "division by zero"
    /\ agent_results.vector_results.success
    /\ agent_results.vector_results.count > 0
    /\ result.value.success
    /\ ~context.sql /\ context.vector

BothPathsFailed(results) ==
    /\ results.sql_results.present /\ ~results.sql_results.success
    /\ results.vector_results.present /\ ~results.vector_results.success

\* C3: query returns success = false exactly when routing failed or both
\* retrieval paths failed, and success = true in every other case.
C3_TopLevelFailureIffRoutingOrBothFail ==
    (InOrchestratorQuery /\ pc = "returned") =>
        (~result.value.success <=>
            (~routing_result.success \/ BothPathsFailed(agent_results)))

\* C4: when no agent produced usable evidence (skipped, failed, or zero
\* documents found), synthesize_response answers the fixed "no relevant
\* information found" message and makes no synthesis model call.
C4_NoEvidenceNoModelCall ==
    (/\ InOrchestratorQuery /\ pc = "returned" /\ routing_result.success
     /\ ~context.sql /\ context.documents = 0)
    => /\ result.value.answer = "No relevant information found"
       /\ ~InLog("synthesis")

\* C5: when the router selects no tool, query returns at once with success =
\* false and the model's free-text reply as the answer: no agent is invoked,
\* no synthesis call is made, and the result carries no evidence.
C5_NoToolReturnsAtOnce ==
    (InOrchestratorQuery
     /\ routing_result.error = "Unable to route query to specific agent")
    => /\ pc = "returned"
       /\ log = <<"routing">>
       /\ ~result.value.success
       /\ result.value.answer = "free text reply"
       /\ result.value.sql_results = NoSqlResult
       /\ result.value.vector_results = NoVectorResult
       /\ agent_results = NoAgentResults
       /\ ~context.built

C5_Witness ==
    /\ InOrchestratorQuery /\ pc = "returned"
    /\ routing_result.error = "Unable to route query to specific agent"
    /\ result.value.answer = "free text reply"

\* C6: within one query the pipeline is strict: routing is the first call
\* and happens once; an agent or the synthesis runs only after routing
\* succeeded; the synthesis call is the last call, made after every routed
\* agent call has returned.
C6_StrictPipeline ==
    InOrchestratorQuery =>
        /\ pc # "route" => (Len(log) >= 1 /\ log[1] = "routing")
        /\ \A i \in 2..Len(log) : log[i] # "routing"
        /\ (Len(log) > 1 \/ pc \notin {"route", "returned", "raised"}) =>
              routing_result.success
        /\ \A i \in 1..Len(log) : log[i] = "synthesis" =>
              /\ i = Len(log)
              /\ Count(log, "sql_agent") = Count(log, "sql_agent_done")
              /\ Count(log, "vector_agent") = Count(log, "vector_agent_done")
              /\ Count(log, "sql_agent") =
                    IF rag_config.enable_sql_search
                    THEN Cardinality(RoutedTo("query_structured_data")) ELSE 0
              /\ Count(log, "vector_agent") =
                    IF rag_config.enable_vector_search
                    THEN Cardinality(RoutedTo("search_unstructured_documents")) ELSE 0

\* C6 witness: a question routed to both agents, both called, then synthesis.
C6_Witness ==
    /\ InOrchestratorQuery /\ pc = "returned"
    /\ InLog("synthesis")
    /\ Count(log, "sql_agent_done") >= 1
    /\ Count(log, "vector_agent_done") >= 1

\* The query texts the EXPLAIN check always rejects.
RejectedKinds == {"syntax_error", "stacked_error"}

ValidationRejected ==
    /\ rag_config.enable_query_validation
    /\ InSqlQuery /\ pc = "returned"
    /\ \/ result.value.sql.kind \in RejectedKinds
       \/ Len(log) >= 2 /\ log[Len(log) - 1] = "validate"

C8_QueryPathIsReadOnly ==
    (InSqlQuery \/ InOrchestratorQuery) => db.committed = before

SqlStagesDone(validated) ==
    <<"embedding", "discover", "text_generation">>
    \o (IF validated THEN <<"validate">> ELSE <<>>)
    \o <<"execute", "sql_agent_done">>

\* C9: every SQLAgent.query call runs discovery, generation, validation and
\* execution in that order and returns exactly one of DONE (success, rows),
\* NO_TABLES_FOUND (nothing after discovery) or FAILED (the error of the
\* failing stage); it never raises.
C9_SqlAgentStateMachine ==
    (InSqlQuery /\ Finished) =>
        /\ pc = "returned"
        /\ \/ /\ result.value.success
              /\ result.value.results = "rows"
              /\ log = SqlStagesDone(rag_config.enable_query_validation)
           \/ /\ ~result.value.success
              /\ result.value.error = "No relevant tables found for this query"
              /\ log = <<"embedding", "discover", "sql_agent_done">>
           \/ /\ ~result.value.success
              /\ result.value.error = "Failed to generate SQL"
              /\ log = <<"embedding", "discover", "text_generation", "sql_agent_done">>
           \/ /\ ~result.value.success
              /\ result.value.error \in StoreErrors
              /\ \/ log = SqlStagesDone(rag_config.enable_query_validation)
                 \/ /\ rag_config.enable_query_validation
                    /\ log = <<"embedding", "discover", "text_generation",
                               "validate", "sql_agent_done">>

\* C10: once a catalog entry for T exists, add_table_to_catalog(T) without
\* force leaves exactly one entry for T, leaves the catalog unchanged and
\* makes no text-generation call and no embedding call.
C10_SecondSyncIsNoOp ==
    (/\ call.op = "sync_table" /\ ~call.force_update /\ Finished
     /\ EntriesFor(before, call.table_name) # {})
    => /\ db.committed.catalog = before.catalog
       /\ Cardinality(EntriesFor(db.committed, call.table_name)) = 1
       /\ ~InLog("text_generation")
       /\ ~InLog("embedding")

C10_Witness ==
    /\ call.op = "sync_table" /\ ~call.force_update /\ pc = "returned"
    /\ result.value = "skipped"
    /\ EntriesFor(before, call.table_name) # {}
    /\ Cardinality(EntriesFor(db.committed, call.table_name)) = 1

StoredEntries(store, table_name) ==
    {store.catalog[i] : i \in EntriesFor(store, table_name)}

ForcedSyncOfExisting ==
    /\ call.op = "sync_table" /\ call.force_update
    /\ EntriesFor(before, call.table_name) # {}

\* C11: add_table_to_catalog(T, force_update=True) on a table that has a
\* catalog entry is never skipped: when it returns it has made one
\* text-generation call, one embedding call and one write, the stored
\* embedding is the one that call returned (also when the descriptions are
\* the stored ones), and T still has exactly one entry.
C11_ForceAlwaysReembeds ==
    (ForcedSyncOfExisting /\ pc = "returned") =>
        /\ result.value = "synced"
        /\ log = <<"select_entry", "text_generation", "embedding", "upsert">>
        /\ sync.embedding = EmbeddingOf(SearchableText(call.table_name, sync.descriptions))
        /\ StoredEntries(db.committed, call.table_name) =
               {CatalogEntry(call.table_name, sync.descriptions, sync.embedding)}
        /\ Cardinality(EntriesFor(db.committed, call.table_name)) = 1

\* C11 witness: the generated descriptions are the stored ones, and the entry
\* was written all the same.
C11_Witness ==
    /\ ForcedSyncOfExisting /\ pc = "returned"
    /\ InLog("embedding") /\ InLog("upsert")
    /\ \E i \in EntriesFor(before, call.table_name) :
          /\ before.catalog[i].table_description = sync.descriptions.description
          /\ before.catalog[i].business_context = sync.descriptions.business_context
    /\ db.committed.catalog = before.catalog

\* C17: when the text-generation call fails during add_table_to_catalog, the
\* failure is not raised: the call goes on to the embedding, only an
\* embedding or store failure makes it raise, and when it returns the catalog
\* holds one entry for the table with the description "Database table:
\* <name>" and the embedding of its searchable text.
C17_GenerationFailureFallsBack ==
    (call.op = "sync_table" /\ sync.generation_error) =>
        /\ pc \in {"sync_embed", "sync_upsert", "returned", "raised"}
        /\ pc = "raised" => log[Len(log)] \in {"embedding", "upsert"}
        /\ pc \in {"sync_upsert", "returned"} =>
              sync.embedding =
                  <<"embedding",
                    <<call.table_name, <<"Database table:", call.table_name>>,
                      <<"Stores structured data for analytical queries">>>>>>
        /\ pc = "returned" =>
              /\ result.value = "synced"
              /\ Cardinality(EntriesFor(db.committed, call.table_name)) = 1
              /\ \A e \in StoredEntries(db.committed, call.table_name) :
                    /\ e.table_description = <<"Database table:", call.table_name>>
                    /\ e.description_embedding = sync.embedding

\* C17 witness: a first sync (no entry before) whose text generation failed
\* ends with the fallback description stored.
C17_Witness ==
    /\ call.op = "sync_table" /\ sync.generation_error /\ pc = "returned"
    /\ EntriesFor(before, call.table_name) = {}
    /\ \E e \in StoredEntries(db.committed, call.table_name) :
          e.table_description = <<"Database table:", call.table_name>>

AgentTools == {"query_structured_data", "search_unstructured_documents"}

\* C18: whatever the routing model answers, route_query yields at most two
\* decisions, at most one for each of the two tools, and each agent is
\* invoked at most once per question.
C18_AtMostOneDecisionPerTool ==
    InOrchestratorQuery =>
        /\ Len(routing_result.routing_decisions) <= 2
        /\ \A agent_name \in AgentTools : Cardinality(RoutedTo(agent_name)) <= 1
        /\ Count(log, "sql_agent") <= 1
        /\ Count(log, "vector_agent") <= 1

\* ============================================ discovery, tier by tier ==
\* MetadataCatalogManager.discover_relevant_tables on its own: the embedding
\* call and the three lookups as separate steps, each of which can fail.
\* discover_relevant_tables above takes the rows in heap order; here a lookup
\* answers any rows the store may answer: the vector tier orders by a
\* distance the question's abstraction leaves open, the other two tiers have
\* no ORDER BY, so LIMIT keeps any max_tables of the matching rows.
MaxAsked == 2

\* The catalog entry a completed sync of the table leaves.
EntryOf(table_name) ==
    LET descriptions == CHOOSE d \in GeneratedTexts : TRUE
    IN CatalogEntry(table_name, descriptions,
                    EmbeddingOf(SearchableText(table_name, descriptions)))

\* The catalogs with at most one entry per table name, in any heap order.
Catalogs ==
    {rows \in UNION {[1..n -> {EntryOf(t) : t \in TableNames}] :
                        n \in 0..Cardinality(TableNames)} :
        \A i, j \in 1..Len(rows) : rows[i] = rows[j] => i = j}

\* WHERE 1 - (description_embedding <=> q) > 0.3
MatchesVector(entry, question) == entry.table_name \in question.vector

\* WHERE LOWER(table_name) LIKE ... OR LOWER(table_description) LIKE ... OR ...
MatchesKeyword(entry, question) == entry.table_name \in question.keyword

\* The third lookup has no WHERE clause.
MatchesNone(entry, question) == FALSE

MatchesAll(entry, question) == TRUE

\* SELECT ... LIMIT n over the matching rows: any n of them (all of them when
\* there are fewer), in any order.
LimitChoices(rows, n) ==
    LET k == Min(Len(rows), n)
    IN {[i \in 1..k |-> rows[pick[i]]] :
           pick \in {f \in [1..k -> 1..Len(rows)] :
                        \A i, j \in 1..k : f[i] = f[j] => i = j}}

\* "if len(results) == 0:" before the next tier
FallsThroughAlways(results) == TRUE

FallsThrough(results) == Len(results) = 0

NoTier == [pc |-> None, question |-> [vector |-> {}, keyword |-> {}],
           max_tables |-> 0, txn |-> "idle", results |-> <<>>, tiers |-> <<>>]

InitDiscover ==
    /\ rag_config = [enable_sql_search |-> TRUE, enable_vector_search |-> TRUE,
                     enable_query_validation |-> TRUE]
    /\ db = NewConnection
    /\ pc = "idle"
    /\ call = NoCall
    /\ sync = NoSync
    /\ routing_result = NoRouting
    /\ idx = 0
    /\ agent_results = NoAgentResults
    /\ sql = NoSqlLocals
    /\ context = NoContext
    /\ result = NoResult
    /\ log = <<>>
    /\ before = EmptyStore
    /\ procs = NoStudy
    /\ srch = NoStudy
    /\ batch = NoStudy
    /\ chunking = NoStudy
    /\ catalog_rows \in Catalogs
    /\ \E question \in Questions, max_tables \in 1..MaxAsked,
          txn \in {"idle", "open", "aborted"} :
         disc = [NoTier EXCEPT !.pc = "embed", !.question = question,
                               !.max_tables = max_tables, !.txn = txn]

discFrame == UNCHANGED <<mainVars, catalog_rows, procs, srch, batch, chunking>>

\* query_embedding = self.generate_embedding(user_query): before the try,
\* and generate_embedding re-raises.
DiscoverEmbed ==
    /\ disc.pc = "embed"
    /\ \E provider_ok \in BOOLEAN :
         disc' = [disc EXCEPT !.pc = IF provider_ok THEN "vector_tier" ELSE "raised"]
    /\ discFrame

\* One lookup of the try block: the rows matching its WHERE clause, cut by
\* LIMIT. The block has a finally (cursor.close()) and no except: a store
\* error propagates and the transaction stays aborted.
Lookup(tier, matching, next_tier) ==
    \E store_error \in BOOLEAN :
        IF StatementFails(disc, store_error)
        THEN disc' = [Abort(Begin(disc)) EXCEPT !.pc = "raised"]
        ELSE \E results \in LimitChoices(matching, disc.max_tables) :
                disc' = [Begin(disc) EXCEPT
                           !.results = results,
                           !.tiers = Append(@, [tier |-> tier, found |-> Len(results)]),
                           !.pc = IF FallsThrough(results) THEN next_tier
                                  ELSE "returned"]

DiscoverVectorTier ==
    /\ disc.pc = "vector_tier"
    /\ Lookup("vector",
              SelectSeq(catalog_rows, LAMBDA e : MatchesVector(e, disc.question)),
              "keyword_tier")
    /\ discFrame

DiscoverKeywordTier ==
    /\ disc.pc = "keyword_tier"
    /\ Lookup("keyword",
              SelectSeq(catalog_rows, LAMBDA e : MatchesKeyword(e, disc.question)),
              "all_tier")
    /\ discFrame

\* The last lookup: its result is returned, empty or not.
DiscoverAllTier ==
    /\ disc.pc = "all_tier"
    /\ Lookup("all",
              SelectSeq(catalog_rows, LAMBDA e : MatchesAll(e, disc.question)),
              "returned")
    /\ discFrame

NextDiscover ==
    \/ DiscoverEmbed
    \/ DiscoverVectorTier
    \/ DiscoverKeywordTier
    \/ DiscoverAllTier

SpecDiscover == InitDiscover /\ [][NextDiscover]_vars

\* ---------------------------------------------- claims about discovery --
ResultNames == {disc.results[i].table_name : i \in 1..Len(disc.results)}

CatalogNames == {catalog_rows[i].table_name : i \in 1..Len(catalog_rows)}

TiersConsulted == [i \in 1..Len(disc.tiers) |-> disc.tiers[i].tier]

ResultsAreEntries ==
    /\ \A i \in 1..Len(disc.results) :
          \E j \in 1..Len(catalog_rows) : disc.results[i] = catalog_rows[j]
    /\ \A i, j \in 1..Len(disc.results) : disc.results[i] = disc.results[j] => i = j

TiersDegradeInOrder ==
    /\ \E n \in 0..3 : TiersConsulted = SubSeq(<<"vector", "keyword", "all">>, 1, n)
    /\ \A i \in 2..Len(disc.tiers) : disc.tiers[i - 1].found = 0

KeywordOnlyMatch(table_name) ==
    /\ disc.pc = "returned"
    /\ CatalogNames \cap disc.question.vector = {}
    /\ table_name \in CatalogNames \cap disc.question.keyword

\* C14 as claimed: the tiers degrade in order, and a table that matches by
\* substring only (nothing above the similarity floor) is in the result.
C14_KeywordMatchIsReturned ==
    /\ TiersDegradeInOrder
    /\ \A table_name \in TableNames :
          KeywordOnlyMatch(table_name) => table_name \in ResultNames

\* C14 amended: the tiers degrade in order, and when nothing is above the
\* similarity floor the result consists of substring matches only: all of
\* them when there are at most max_tables, and max_tables of them otherwise.
C14_KeywordMatchesUpToLimit ==
    /\ TiersDegradeInOrder
    /\ \A table_name \in TableNames :
          KeywordOnlyMatch(table_name) =>
              /\ TiersConsulted = <<"vector", "keyword">>
              /\ ResultNames \subseteq CatalogNames \cap disc.question.keyword
              /\ \/ table_name \in ResultNames
                 \/ /\ Len(disc.results) = disc.max_tables
                    /\ Cardinality(CatalogNames \cap disc.question.keyword)
                           > disc.max_tables

\* C14 witness: one table matches by substring only and is the result.
C14_Witness ==
    \E table_name \in TableNames :
        /\ KeywordOnlyMatch(table_name)
        /\ ResultNames = {table_name}
        /\ Len(catalog_rows) > 1

\* C15: discover_relevant_tables never raises, whatever fails.
C15_DiscoveryNeverRaises == disc.pc # "raised"

\* ======================================= catalog syncs, process by process ==
\* The processes that write the catalog, each with its own DatabaseManager
\* and so its own connection: the API process runs add_table_to_catalog and
\* sync_all_tables (MetadataCatalogManager), a Celery worker runs
\* update_table_metadata_task. The connections are READ COMMITTED: a
\* statement sees the rows committed so far. Both writers commit right after
\* their one write, so the write and its commit are one step here, and so
\* are the model calls before it (they touch no shared state).
ApiProcs == {"api"}
WorkerProcs == {"worker"}
Procs == ApiProcs \cup WorkerProcs

\* get_all_tables: ORDER BY table_name
TableOrder == <<"orders", "users">>

\* The lists get_all_tables can return: the application tables that exist.
TableLists ==
    {SelectSeq(TableOrder, LAMBDA t : t \in present) : present \in SUBSET TableNames}

IdleProc == [pc |-> "idle", op |-> None, table_name |-> None, force_update |-> FALSE,
             exists |-> FALSE, txn |-> "idle", tables |-> <<>>, i |-> 0,
             attempts |-> <<>>, error |-> None]

\* The committed rows, as the store the catalog statements act on.
CommittedStore == [catalog |-> catalog_rows, docs |-> 0]

InitCatalog ==
    /\ rag_config = [enable_sql_search |-> TRUE, enable_vector_search |-> TRUE,
                     enable_query_validation |-> TRUE]
    /\ db = NewConnection
    /\ pc = "idle"
    /\ call = NoCall
    /\ sync = NoSync
    /\ routing_result = NoRouting
    /\ idx = 0
    /\ agent_results = NoAgentResults
    /\ sql = NoSqlLocals
    /\ context = NoContext
    /\ result = NoResult
    /\ log = <<>>
    /\ before = EmptyStore
    /\ disc = NoStudy
    /\ srch = NoStudy
    /\ batch = NoStudy
    /\ chunking = NoStudy
    /\ catalog_rows = <<>>
    /\ procs = [p \in Procs |-> IdleProc]

catalogFrame == UNCHANGED <<mainVars, disc, srch, batch, chunking>>

StartSyncTable(p, t, f) ==
    /\ procs[p].pc = "idle"
    /\ procs' = [procs EXCEPT ![p] = [@ EXCEPT !.pc = "check", !.op = "sync_table",
                                               !.table_name = t, !.force_update = f]]
    /\ UNCHANGED catalog_rows
    /\ catalogFrame

StartSyncAll(p, f) ==
    /\ procs[p].pc = "idle"
    /\ procs' = [procs EXCEPT ![p] = [@ EXCEPT !.pc = "list", !.op = "sync_all",
                                               !.force_update = f]]
    /\ UNCHANGED catalog_rows
    /\ catalogFrame

\* A task delivered to the worker (first delivery or a retry).
StartTask(p, t, f) ==
    /\ procs[p].pc = "idle"
    /\ procs' = [procs EXCEPT ![p] = [@ EXCEPT !.pc = "task_check", !.op = "task",
                                               !.table_name = t, !.force_update = f]]
    /\ UNCHANGED catalog_rows
    /\ catalogFrame

\* The caller has the outcome; the connection stays as the operation left it.
ProcDone(p) ==
    /\ procs[p].pc \in {"returned", "raised"}
    /\ procs' = [procs EXCEPT ![p] = [IdleProc EXCEPT !.txn = procs[p].txn]]
    /\ UNCHANGED catalog_rows
    /\ catalogFrame

\* sync_all_tables: "except Exception as e: ... continue"
BatchStopsOnFailure(table_raised) == ~table_raised

BatchGoesOn(table_raised) == TRUE

\* A plausible slip: the handler logs the error and reports it as a result.
ReturnsFalseOnError(failed) == FALSE

\* add_table_to_catalog: "except Exception as e: conn.rollback() ... raise"
Reraises(failed) == failed

\* add_table_to_catalog ends for process record q (its connection already
\* in its final state): sync_table returns or raises to its caller,
\* sync_all_tables notes the outcome and goes on with the next table.
AfterTable(q, outcome, error) ==
    LET table_raised == Reraises(outcome = "failed")
    IN IF q.op = "sync_table"
       THEN [q EXCEPT !.pc = IF table_raised THEN "raised" ELSE "returned",
                      !.error = error]
       ELSE LET noted == [q EXCEPT !.attempts =
                             Append(@, [table_name |-> q.table_name, outcome |-> outcome,
                                        error |-> error])]
            IN IF ~BatchGoesOn(table_raised)
               THEN [noted EXCEPT !.pc = "raised", !.error = error]
               ELSE IF q.i + 1 > Len(q.tables)
               THEN [noted EXCEPT !.pc = "returned"]
               ELSE [noted EXCEPT !.pc = "check", !.i = q.i + 1,
                                  !.table_name = q.tables[q.i + 1], !.exists = FALSE]

\* sync_all_tables up to the loop: get_all_tables (finally: cursor.close(),
\* no rollback), outside any try.
SyncAllList(p) ==
    /\ procs[p].pc = "list"
    /\ \E store_error \in BOOLEAN, tables \in TableLists :
         LET q == procs[p]
         IN procs' = [procs EXCEPT ![p] =
               IF StatementFails(q, store_error)
               THEN [Abort(Begin(q)) EXCEPT !.pc = "raised", !.error = "store"]
               ELSE IF tables = <<>>
               THEN [Begin(q) EXCEPT !.pc = "returned"]
               ELSE [Begin(q) EXCEPT !.pc = "check", !.tables = tables, !.i = 1,
                                     !.table_name = tables[1]]]
    /\ UNCHANGED catalog_rows
    /\ catalogFrame

\* add_table_to_catalog up to the model calls (as SyncCheck).
CatalogCheck(p) ==
    /\ procs[p].pc = "check"
    /\ \E select_error \in BOOLEAN, sample_error \in BOOLEAN :
         LET q == procs[p]
             exists == EntriesFor(CommittedStore, q.table_name) # {}
         IN procs' = [procs EXCEPT ![p] =
               IF StatementFails(q, select_error)
               THEN AfterTable([q EXCEPT !.txn = "idle"], "failed", "store")
               ELSE IF SkipsExisting(exists, q.force_update)
               THEN AfterTable(Begin(q), "skipped", None)
               ELSE IF sample_error
               THEN AfterTable([q EXCEPT !.txn = "idle"], "failed", "store")
               ELSE [Begin(q) EXCEPT !.pc = "write", !.exists = exists]]
    /\ UNCHANGED catalog_rows
    /\ catalogFrame

\* add_table_to_catalog from the model calls on (as SyncDescribe, SyncEmbed
\* and SyncUpsert): description, embedding, UPDATE or INSERT, commit; on any
\* error rollback and re-raise.
CatalogWrite(p) ==
    /\ procs[p].pc = "write"
    /\ \E generation_ok \in BOOLEAN, answer \in GeneratedTexts,
          provider_ok \in BOOLEAN, store_error \in BOOLEAN :
         LET q == procs[p]
             descriptions ==
                 generate_table_description(q.table_name, generation_ok, answer)
             entry == CatalogEntry(q.table_name, descriptions,
                          EmbeddingOf(SearchableText(q.table_name, descriptions)))
             violates == ~q.exists /\ InsertViolatesUnique(CommittedStore, entry)
             written == IF q.exists THEN UpdateEntry(CommittedStore, entry)
                        ELSE InsertEntry(CommittedStore, entry)
             rolled_back == [q EXCEPT !.txn = "idle"]
         IN IF ~provider_ok
            THEN /\ procs' = [procs EXCEPT ![p] =
                                 AfterTable(rolled_back, "failed", "provider")]
                 /\ UNCHANGED catalog_rows
            ELSE IF StatementFails(q, store_error) \/ violates
            THEN /\ procs' = [procs EXCEPT ![p] =
                                 AfterTable(rolled_back, "failed",
                                            IF violates /\ ~StatementFails(q, store_error)
                                            THEN "unique" ELSE "store")]
                 /\ UNCHANGED catalog_rows
            ELSE /\ procs' = [procs EXCEPT ![p] = AfterTable(rolled_back, "synced", None)]
                 /\ catalog_rows' = written.catalog
    /\ catalogFrame

\* update_table_metadata_task up to get_table_context_string: the SELECT
\* when force_update is not set. Every error goes to the outer except, which
\* has no rollback: self.retry raises and the transaction stays as it is.
TaskCheck(p) ==
    /\ procs[p].pc = "task_check"
    /\ \E select_error \in BOOLEAN :
         LET q == procs[p]
             exists == EntriesFor(CommittedStore, q.table_name) # {}
         IN procs' = [procs EXCEPT ![p] =
               IF q.force_update
               THEN [q EXCEPT !.pc = "task_write"]
               ELSE IF StatementFails(q, select_error)
               THEN [Abort(Begin(q)) EXCEPT !.pc = "raised", !.error = "store"]
               ELSE IF exists
               THEN [Begin(q) EXCEPT !.pc = "returned", !.exists = TRUE]
               ELSE [Begin(q) EXCEPT !.pc = "task_write"]]
    /\ UNCHANGED catalog_rows
    /\ catalogFrame

\* INSERT ... ON CONFLICT (table_name) DO UPDATE: the unique index arbitrates
UpsertEntry(store, entry) ==
    IF InsertViolatesUnique(store, entry) THEN UpdateEntry(store, entry)
    ELSE InsertEntry(store, entry)

\* update_table_metadata_task from get_sample_data on: description,
\* embedding, the upsert and its commit.
TaskWrite(p) ==
    /\ procs[p].pc = "task_write"
    /\ \E sample_error \in BOOLEAN, generation_ok \in BOOLEAN, answer \in GeneratedTexts,
          provider_ok \in BOOLEAN, store_error \in BOOLEAN :
         LET q == procs[p]
             descriptions ==
                 generate_table_description(q.table_name, generation_ok, answer)
             entry == CatalogEntry(q.table_name, descriptions,
                          EmbeddingOf(SearchableText(q.table_name, descriptions)))
         IN IF StatementFails(q, sample_error)
            THEN /\ procs' = [procs EXCEPT ![p] =
                        [Abort(Begin(q)) EXCEPT !.pc = "raised", !.error = "store"]]
                 /\ UNCHANGED catalog_rows
            ELSE IF ~provider_ok
            THEN /\ procs' = [procs EXCEPT ![p] =
                        [Begin(q) EXCEPT !.pc = "raised", !.error = "provider"]]
                 /\ UNCHANGED catalog_rows
            ELSE IF store_error
            THEN /\ procs' = [procs EXCEPT ![p] =
                        [Abort(Begin(q)) EXCEPT !.pc = "raised", !.error = "store"]]
                 /\ UNCHANGED catalog_rows
            ELSE /\ procs' = [procs EXCEPT ![p] = [q EXCEPT !.pc = "returned",
                                                            !.txn = "idle"]]
                 /\ catalog_rows' = UpsertEntry(CommittedStore, entry).catalog
    /\ catalogFrame

NextCatalog ==
    \/ \E p \in ApiProcs, t \in TableNames, f \in BOOLEAN : StartSyncTable(p, t, f)
    \/ \E p \in ApiProcs, f \in BOOLEAN : StartSyncAll(p, f)
    \/ \E p \in WorkerProcs, t \in TableNames, f \in BOOLEAN : StartTask(p, t, f)
    \/ \E p \in ApiProcs : SyncAllList(p)
    \/ \E p \in ApiProcs : CatalogCheck(p)
    \/ \E p \in ApiProcs : CatalogWrite(p)
    \/ \E p \in WorkerProcs : TaskCheck(p)
    \/ \E p \in WorkerProcs : TaskWrite(p)
    \/ \E p \in Procs : ProcDone(p)

SpecCatalog == InitCatalog /\ [][NextCatalog]_vars

\* ------------------------------------------ claims about catalog syncs --
\* C12: whatever sync_table, sync_all and update_table_metadata_task calls
\* run, in whatever interleaving, with whatever force flags and failures,
\* the catalog holds at most one entry per table name.
C12_AtMostOneEntryPerTable ==
    \A table_name \in TableNames :
        Cardinality(EntriesFor(CommittedStore, table_name)) <= 1

\* C12 witness: add_table_to_catalog found no entry, the worker's task
\* inserted one meanwhile, and the INSERT was rejected by the unique index.
C12_Witness ==
    \E p \in ApiProcs :
        /\ procs[p].op = "sync_table" /\ procs[p].pc = "raised"
        /\ procs[p].error = "unique"
        /\ Cardinality(EntriesFor(CommittedStore, procs[p].table_name)) = 1

Attempted(q) == [k \in 1..Len(q.attempts) |-> q.attempts[k].table_name]

\* C16: sync_all_tables, once it has the list of tables, never raises: it
\* attempts the tables one by one in the order of the list, each exactly
\* once whatever failed before, returns normally, and every table whose own
\* add_table_to_catalog did not fail has a catalog entry.
C16_SyncAllNeverAborts ==
    \A p \in ApiProcs :
        LET q == procs[p]
        IN q.op = "sync_all" =>
              /\ q.pc = "raised" => (q.tables = <<>> /\ q.attempts = <<>>)
              /\ q.pc = "check" => Attempted(q) = SubSeq(q.tables, 1, q.i - 1)
              /\ q.pc = "returned" => Attempted(q) = q.tables
              /\ \A k \in 1..Len(q.attempts) :
                    q.attempts[k].outcome # "failed" =>
                        EntriesFor(CommittedStore, q.attempts[k].table_name) # {}

\* C16 witness: the first table of the list failed, the second was synced.
C16_Witness ==
    \E p \in ApiProcs :
        /\ procs[p].op = "sync_all" /\ procs[p].pc = "returned"
        /\ Len(procs[p].attempts) = 2
        /\ procs[p].attempts[1].outcome = "failed"
        /\ procs[p].attempts[2].outcome = "synced"

\* The step is the end of a sync_table call of p that the embedding provider
\* failed.
ProviderFailsSyncTable(p) ==
    /\ procs[p].op = "sync_table" /\ procs[p].pc = "write"
    /\ procs'[p].error = "provider"

\* C23: when the embedding provider fails during sync_table the error is
\* raised to the caller and the failing call leaves the catalog as it was;
\* when it fails for a table inside sync_all_tables, sync_all_tables does not
\* raise.
C23_EmbeddingFailureRaisesAndKeepsCatalog ==
    /\ [](\A p \in ApiProcs :
            LET q == procs[p]
            IN /\ (q.op = "sync_table" /\ q.error = "provider") => q.pc = "raised"
               /\ (/\ q.op = "sync_all"
                   /\ \E k \in 1..Len(q.attempts) : q.attempts[k].error = "provider")
                  => q.pc # "raised")
    /\ [][\A p \in ApiProcs :
            ProviderFailsSyncTable(p) => catalog_rows' = catalog_rows]_vars

\* C23 witness: a forced sync_table of a table that has an entry was failed by
\* the embedding provider and raised; the entry is still there.
C23_Witness ==
    \E p \in ApiProcs :
        /\ procs[p].op = "sync_table" /\ procs[p].pc = "raised"
        /\ procs[p].error = "provider" /\ procs[p].force_update
        /\ EntriesFor(CommittedStore, procs[p].table_name) # {}

\* C21: two concurrent syncs of the same table (add_table_to_catalog in the
\* API process, update_table_metadata_task in the worker), in every
\* interleaving, both complete without error (no failure that neither the
\* store nor a provider caused) and leave exactly one entry for the table.
C21_ConcurrentSyncsBothComplete ==
    \A p \in ApiProcs, w \in WorkerProcs :
        LET a == procs[p]
            b == procs[w]
        IN (/\ a.op = "sync_table" /\ b.op = "task"
            /\ a.table_name = b.table_name
            /\ a.pc \in {"returned", "raised"} /\ b.pc \in {"returned", "raised"}
            /\ a.error \notin {"store", "provider"}
            /\ b.error \notin {"store", "provider"})
           => /\ a.pc = "returned" /\ b.pc = "returned"
              /\ Cardinality(EntriesFor(CommittedStore, a.table_name)) = 1

\* ================================================== document search ==
\* VectorSearchAgent.search on its own, over a documents table whose rows
\* carry the metadata add_document stored (json.dumps of the caller's dict)
\* and a similarity to the query.
MaxStored == 2
MaxWanted == 2

MetadataKeys == {"dept", "public"}

\* A metadata value the caller passes (a Python value): its type and its
\* str(). Absent: the key is not in the dict.
Absent == [type |-> "absent", val |-> "absent"]

MetadataValues ==
    [dept |-> {[type |-> "str", val |-> "hr"]},
     public |-> {[type |-> "bool", val |-> "True"], [type |-> "str", val |-> "True"]}]

Metadatas == {m \in [MetadataKeys -> UNION {MetadataValues[k] : k \in MetadataKeys}
                                        \cup {Absent}] :
                 \A k \in MetadataKeys : m[k] \in MetadataValues[k] \cup {Absent}}

Similarities == {1, 2}

Documents == [similarity : Similarities, metadata : Metadatas]

\* params.append(str(value))
PyStr(value) == value.val

\* metadata->>'key' over the stored json.dumps(metadata): the JSON text of
\* the value (true / false for a bool, the characters of a string), NULL
\* when the key is absent.
JsonText(value) ==
    CASE value.type = "bool" -> IF value.val = "True" THEN "true" ELSE "false"
      [] value.type = "absent" -> "NULL"
      [] OTHER -> value.val

\* One condition of the WHERE clause: metadata->>'key' = %s (NULL = x is
\* not true).
ConditionHolds(document, key, value) ==
    /\ document.metadata[key] # Absent
    /\ JsonText(document.metadata[key]) = PyStr(value)

\* "if metadata_filter:" and the conditions joined by AND
FilterKeys(metadata_filter) == {k \in MetadataKeys : metadata_filter[k] # Absent}

SelectedByWhere(document, metadata_filter) ==
    \A k \in FilterKeys(metadata_filter) :
        ConditionHolds(document, k, metadata_filter[k])

\* ORDER BY embedding <=> query: a may come before b
MostSimilarFirst(a, b) == a.similarity >= b.similarity

\* ORDER BY ... LIMIT n over the selected rows (row numbers of the table):
\* every answer the store may give, ties in any order.
OrderedLimit(rows, selected, n) ==
    LET k == Min(Cardinality(selected), n)
    IN {r \in [1..k -> selected] :
           /\ \A i, j \in 1..k : r[i] = r[j] => i = j
           /\ \A i, j \in 1..k : i < j => MostSimilarFirst(rows[r[i]], rows[r[j]])
           /\ \A d \in selected \ {r[i] : i \in 1..k} :
                 \A i \in 1..k : MostSimilarFirst(rows[r[i]], rows[d])}

InitSearch ==
    /\ rag_config = [enable_sql_search |-> TRUE, enable_vector_search |-> TRUE,
                     enable_query_validation |-> TRUE]
    /\ db = NewConnection
    /\ pc = "idle"
    /\ call = NoCall
    /\ sync = NoSync
    /\ routing_result = NoRouting
    /\ idx = 0
    /\ agent_results = NoAgentResults
    /\ sql = NoSqlLocals
    /\ context = NoContext
    /\ result = NoResult
    /\ log = <<>>
    /\ before = EmptyStore
    /\ disc = NoStudy
    /\ catalog_rows = <<>>
    /\ procs = NoStudy
    /\ batch = NoStudy
    /\ chunking = NoStudy
    /\ \E rows \in UNION {[1..n -> Documents] : n \in 0..MaxStored},
          max_results \in 1..MaxWanted, metadata_filter \in Metadatas,
          txn \in {"idle", "aborted"} :
         srch = [pc |-> "embed", rows |-> rows, max_results |-> max_results,
                 metadata_filter |-> metadata_filter, txn |-> txn, results |-> <<>>]

searchFrame == UNCHANGED <<mainVars, disc, catalog_rows, procs, batch, chunking>>

\* query_embedding = self._generate_embedding(query): re-raises
SearchEmbed ==
    /\ srch.pc = "embed"
    /\ \E provider_ok \in BOOLEAN :
         srch' = [srch EXCEPT !.pc = IF provider_ok THEN "select" ELSE "raised"]
    /\ searchFrame

\* The SELECT with its WHERE, ORDER BY and LIMIT; results = the rows fetched.
\* finally: cursor.close(), no except.
SearchSelect ==
    /\ srch.pc = "select"
    /\ \E store_error \in BOOLEAN :
         IF StatementFails(srch, store_error)
         THEN srch' = [Abort(Begin(srch)) EXCEPT !.pc = "raised"]
         ELSE LET selected == {d \in 1..Len(srch.rows) :
                                  SelectedByWhere(srch.rows[d], srch.metadata_filter)}
              IN \E results \in OrderedLimit(srch.rows, selected, srch.max_results) :
                    srch' = [Begin(srch) EXCEPT !.pc = "returned", !.results = results]
    /\ searchFrame

NextSearch ==
    \/ SearchEmbed
    \/ SearchSelect

SpecSearch == InitSearch /\ [][NextSearch]_vars

\* ------------------------------------------------ claims about search --
\* A document matches a filter when it holds each of the filter's keys with
\* the filter's value.
MatchesFilter(document, metadata_filter) ==
    \A k \in FilterKeys(metadata_filter) : document.metadata[k] = metadata_filter[k]

Returned == {srch.results[i] : i \in 1..Len(srch.results)}

\* C19: search returns at most max_results documents in descending
\* similarity; with a metadata filter every returned document matches all
\* the filter's key/value pairs, and a matching document is left out only
\* when max_results documents at least as similar are returned.
C19_SearchFiltersAndRanks ==
    srch.pc = "returned" =>
        /\ Len(srch.results) <= srch.max_results
        /\ \A i, j \in 1..Len(srch.results) :
              i < j => srch.rows[srch.results[i]].similarity
                          >= srch.rows[srch.results[j]].similarity
        /\ \A d \in Returned : MatchesFilter(srch.rows[d], srch.metadata_filter)
        /\ \A d \in 1..Len(srch.rows) :
              (MatchesFilter(srch.rows[d], srch.metadata_filter) /\ d \notin Returned)
              => /\ Len(srch.results) = srch.max_results
                 /\ \A e \in Returned :
                       srch.rows[e].similarity >= srch.rows[d].similarity

\* ================================================= embedding batches ==
\* EmbeddingService.generate_embeddings_batch on its own: the cache lookups
\* text by text, the provider calls sub-batch by sub-batch, the final check.
\* The service sets max_batch_size = 2048; the loop is the same for every
\* positive size, and the sizes 1..MaxBatchSize make a request span several
\* sub-batches within MaxTexts texts.
MaxTexts == 3
MaxBatchSize == 2

Texts == {"a", "b"}

\* embeddings = [None] * len(texts): the placeholder
NoEmbedding == <<>>

\* The caches _set_in_cache can have left: per text, nothing or the
\* embedding stored for it.
Caches == {c \in [Texts -> {NoEmbedding} \cup {EmbeddingOf(t) : t \in Texts}] :
              \A t \in Texts : c[t] \in {NoEmbedding, EmbeddingOf(t)}}

InitBatch ==
    /\ rag_config = [enable_sql_search |-> TRUE, enable_vector_search |-> TRUE,
                     enable_query_validation |-> TRUE]
    /\ db = NewConnection
    /\ pc = "idle"
    /\ call = NoCall
    /\ sync = NoSync
    /\ routing_result = NoRouting
    /\ idx = 0
    /\ agent_results = NoAgentResults
    /\ sql = NoSqlLocals
    /\ context = NoContext
    /\ result = NoResult
    /\ log = <<>>
    /\ before = EmptyStore
    /\ disc = NoStudy
    /\ catalog_rows = <<>>
    /\ procs = NoStudy
    /\ srch = NoStudy
    /\ chunking = NoStudy
    /\ \E texts \in UNION {[1..n -> Texts] : n \in 0..MaxTexts},
          max_batch_size \in 1..MaxBatchSize, cache \in Caches :
         batch = [pc |-> "enter", texts |-> texts, max_batch_size |-> max_batch_size,
                  cache |-> cache, i |-> 0, embeddings |-> <<>>,
                  uncached_texts |-> <<>>, uncached_indices |-> <<>>,
                  batch_start |-> 0, api_calls |-> 0, error |-> None]

batchFrame == UNCHANGED <<mainVars, disc, catalog_rows, procs, srch, chunking>>

\* "if not texts: return []", else the placeholders
BatchEnter ==
    /\ batch.pc = "enter"
    /\ batch' = IF batch.texts = <<>>
                THEN [batch EXCEPT !.pc = "returned"]
                ELSE [batch EXCEPT !.pc = "lookup", !.i = 1,
                         !.embeddings = [k \in 1..Len(batch.texts) |-> NoEmbedding]]
    /\ batchFrame

\* _get_from_cache: the stored embedding, or None when there is none, the
\* cache is disabled or the read fails.
BatchLookup ==
    /\ batch.pc = "lookup"
    /\ \E cache_ok \in BOOLEAN :
         LET text == batch.texts[batch.i]
             cached_embedding == IF cache_ok THEN batch.cache[text] ELSE NoEmbedding
             looked == IF cached_embedding # NoEmbedding
                       THEN [batch EXCEPT !.embeddings[batch.i] = cached_embedding]
                       ELSE [batch EXCEPT !.uncached_texts = Append(@, text),
                                          !.uncached_indices = Append(@, batch.i)]
         IN batch' = IF batch.i < Len(batch.texts)
                     THEN [looked EXCEPT !.i = @ + 1]
                     ELSE [looked EXCEPT !.pc = IF looked.uncached_texts # <<>>
                                                THEN "call" ELSE "verify"]
    /\ batchFrame

\* A plausible slip: the offset of the sub-batch is forgotten.
OriginalIndexInBatch(uncached_indices, batch_start, n) == uncached_indices[n]

\* original_idx = uncached_indices[batch_start + idx], with n = idx + 1
OriginalIndex(uncached_indices, batch_start, n) == uncached_indices[batch_start + n]

\* The provider's answer for a sub-batch: one embedding per input, in the
\* order of the inputs.
ResponseData(batch_texts) == [k \in 1..Len(batch_texts) |-> EmbeddingOf(batch_texts[k])]

RECURSIVE StoreResults(_, _, _, _, _)
\* "for idx, embedding_data in enumerate(response.data):
\*      embeddings[original_idx] = embedding"
StoreResults(embeddings, uncached_indices, batch_start, data, n) ==
    IF n > Len(data) THEN embeddings
    ELSE StoreResults(
             [embeddings EXCEPT
                 ![OriginalIndex(uncached_indices, batch_start, n)] = data[n]],
             uncached_indices, batch_start, data, n + 1)

\* One turn of "for batch_start in range(0, len(uncached_texts),
\* max_batch_size)": the provider call, its results stored and cached
\* (_set_in_cache swallows its own errors); a provider error is re-raised.
BatchCall ==
    /\ batch.pc = "call"
    /\ \E provider_ok \in BOOLEAN, cache_ok \in BOOLEAN :
         LET batch_end == Min(batch.batch_start + batch.max_batch_size,
                              Len(batch.uncached_texts))
             batch_texts == SubSeq(batch.uncached_texts, batch.batch_start + 1, batch_end)
             data == ResponseData(batch_texts)
             next_start == batch.batch_start + batch.max_batch_size
         IN batch' =
              IF ~provider_ok
              THEN [batch EXCEPT !.pc = "raised", !.error = "provider",
                                 !.api_calls = @ + 1]
              ELSE [batch EXCEPT
                      !.embeddings = StoreResults(@, batch.uncached_indices,
                                                  batch.batch_start, data, 1),
                      !.cache = IF cache_ok
                                THEN [t \in Texts |->
                                        IF \E k \in 1..Len(batch_texts) : batch_texts[k] = t
                                        THEN EmbeddingOf(t) ELSE @[t]]
                                ELSE @,
                      !.api_calls = @ + 1,
                      !.batch_start = next_start,
                      !.pc = IF next_start < Len(batch.uncached_texts)
                             THEN "call" ELSE "verify"]
    /\ batchFrame

\* "if None in embeddings: raise RuntimeError", else return embeddings
BatchVerify ==
    /\ batch.pc = "verify"
    /\ batch' = IF \E k \in 1..Len(batch.embeddings) : batch.embeddings[k] = NoEmbedding
                THEN [batch EXCEPT !.pc = "raised", !.error = "RuntimeError"]
                ELSE [batch EXCEPT !.pc = "returned"]
    /\ batchFrame

NextBatch ==
    \/ BatchEnter
    \/ BatchLookup
    \/ BatchCall
    \/ BatchVerify

SpecBatch == InitBatch /\ [][NextBatch]_vars

\* ---------------------------------------------- claims about batches --
\* C20: for every list of texts and every pattern of cache hits and misses,
\* generate_embeddings_batch returns a list as long as the input whose
\* position i holds the embedding of texts[i]; it raises only when the
\* provider call does.
C20_BatchPreservesOrder ==
    /\ batch.pc = "returned" =>
          /\ Len(batch.embeddings) = Len(batch.texts)
          /\ \A k \in 1..Len(batch.texts) :
                batch.embeddings[k] = EmbeddingOf(batch.texts[k])
    /\ batch.pc = "raised" => batch.error = "provider"

\* C20 witness: a hit between two misses, the misses sent in two sub-batches.
C20_Witness ==
    /\ batch.pc = "returned"
    /\ batch.texts = <<"a", "b", "a">>
    /\ batch.uncached_indices = <<1, 3>>
    /\ batch.api_calls = 2

\* ================================================ dispatch of decisions ==
\* The decisions execute_agent_calls has taken so far that name the tool.
TakenFor(agent_name) == {i \in RoutedTo(agent_name) : i <= idx}

\* C25: execute_agent_calls invokes an agent only for a decision that names
\* its tool and only if the capability is enabled: with the capability
\* disabled the agent is never invoked and its result stays unpopulated, a
\* decision naming an unknown tool invokes nothing, and once the loop is over
\* every enabled agent that was named has its result.
C25_DisabledCapabilityIsNeverDispatched ==
    InOrchestratorQuery =>
        /\ ~rag_config.enable_sql_search =>
              /\ ~InLog("sql_agent")
              /\ agent_results.sql_results = NoSqlResult
        /\ ~rag_config.enable_vector_search =>
              /\ ~InLog("vector_agent")
              /\ agent_results.vector_results = NoVectorResult
        /\ Count(log, "sql_agent") <= Cardinality(TakenFor("query_structured_data"))
        /\ Count(log, "vector_agent")
              <= Cardinality(TakenFor("search_unstructured_documents"))
        /\ pc = "synthesize" =>
              /\ agent_results.sql_results.present = SqlRouted
              /\ agent_results.vector_results.present = VectorRouted

\* C25 witness: the router named both tools, the structured capability is
\* disabled: the loop is over, only the document search has a result.
C25_Witness ==
    /\ InOrchestratorQuery /\ pc = "synthesize"
    /\ ~rag_config.enable_sql_search
    /\ RoutedTo("query_structured_data") # {}
    /\ agent_results.sql_results = NoSqlResult
    /\ agent_results.vector_results.present

\* ============================================ validation on and off ==
\* Step 3 of SQLAgent.query begins: validate_and_execute, or the direct
\* execution when validation is disabled.
AtStepThree ==
    \/ pc = "sql_validate"
    \/ pc = "sql_execute" /\ ~rag_config.enable_query_validation

\* The record steps 3 and 4 return for query text q on connection d under
\* either setting of enable_query_validation.
RecordWith(d, q, enable_query_validation) ==
    IF enable_query_validation
    THEN LET v == validate_query(d, q)
         IN IF ExecutesQuery(v.is_valid)
            THEN QueryRecord(ExecutionResult(execute_query(v.db, q)), q)
            ELSE QueryRecord([valid |-> FALSE, error |-> v.error,
                              results |-> None, row_count |-> 0], q)
    ELSE QueryRecord(DirectExecutionResult(execute_query(d, q)), q)

\* The failure is one that execution itself raises: validation passes the
\* text, execute_query raises.
ExecutionItselfRaises(d, q) ==
    LET v == validate_query(d, q)
    IN v.is_valid /\ execute_query(v.db, q).raised

C28_SynthesisFailureStillAnswers ==
    (InOrchestratorQuery /\ Finished /\ InLog("synthesis")) =>
        /\ pc = "returned"
        /\ result.value.success
        /\ result.value.answer \in {"synthesized answer", "error note and context"}
        /\ result.value.sql_results = agent_results.sql_results
        /\ result.value.vector_results = agent_results.vector_results

\* C28 witness: both agents returned evidence, the synthesis call failed, and
\* query returned the error note with the context and both results.
C28_Witness ==
    /\ InOrchestratorQuery /\ pc = "returned"
    /\ result.value.success
    /\ result.value.answer = "error note and context"
    /\ result.value.sql_results.success
    /\ result.value.vector_results.success
    /\ context.sql /\ context.vector

\* =========================================== the connection after errors ==
\* C30: when an operation has ended, whatever database error it met, the
\* shared connection is not left in an aborted transaction, so the first
\* statement of the next operation is not failed by the earlier error.
C30_NoOperationLeavesAbortedTransaction ==
    (Finished \/ pc = "idle") => db.txn # "aborted"

\* ======================================= transactions and model calls ==
\* A call to a model provider (text generation or embedding) of sync_table
\* or add_document is about to be made or in flight.
ProviderCallInFlight ==
    /\ call.op \in {"sync_table", "add_document"}
    /\ pc \in {"sync_describe", "sync_embed", "doc_embed"}

\* The embedding an entry's own texts call for.
EmbeddingDue(entry) ==
    EmbeddingOf(SearchableText(entry.table_name,
                               [description |-> entry.table_description,
                                business_context |-> entry.business_context]))

\* C24: in every reachable state each catalog entry's stored embedding is the
\* embedding of the text built from the table name, description and business
\* context stored in that same entry.
C24_EmbeddingMatchesStoredTexts ==
    \A i \in 1..Len(db.committed.catalog) :
        db.committed.catalog[i].description_embedding
            = EmbeddingDue(db.committed.catalog[i])

\* C22: while sync_table or add_document has a provider call in flight, no
\* transaction is open on the connection: every transaction begins after the
\* last provider call and ends before the next.
C22_NoTransactionSpansProviderCall ==
    ProviderCallInFlight => db.txn = "idle"

\* =================================================== document chunking ==
\* chunk_text on its own: a pure function with a loop, one iteration a step.
MaxTextLen == 4
MaxChunkSize == 3

\* Characters of a text: a letter, a blank, a full stop.
Characters == {"a", " ", "."}

ChunkTexts == UNION {[1..n -> Characters] : n \in 0..MaxTextLen}

\* for delimiter in ['. ', '! ', '? ', '\n\n', '\n', ' ']
Delimiters == << <<".", " ">>, <<"!", " ">>, <<"?", " ">>, <<"\n", "\n">>, <<"\n">>,
                 <<" ">> >>

\* The characters str.strip() removes.
Whitespace == {" ", "\n", "\t", "\r"}

SetMax(S) == CHOOSE x \in S : \A y \in S : y <= x

SetMin(S) == CHOOSE x \in S : \A y \in S : x <= y

\* Python's reading of a slice bound: a negative bound counts from the end,
\* and every bound is clipped to 0..len.
SliceIndex(i, n) ==
    IF i < 0 THEN (IF i + n < 0 THEN 0 ELSE i + n)
    ELSE IF i > n THEN n ELSE i

\* text[start:end]
Slice(text, start, end) ==
    LET s == SliceIndex(start, Len(text))
        e == SliceIndex(end, Len(text))
    IN IF s < e THEN SubSeq(text, s + 1, e) ELSE <<>>

\* text.rfind(delimiter, start, end): the highest 0-based index at which
\* delimiter lies within text[start:end], or -1.
rfind(text, delimiter, start, end) ==
    LET s == SliceIndex(start, Len(text))
        e == SliceIndex(end, Len(text))
        found == {b \in s..(e - Len(delimiter)) :
                     SubSeq(text, b + 1, b + Len(delimiter)) = delimiter}
    IN IF found = {} THEN -1 ELSE SetMax(found)

\* text.strip()
Strip(text) ==
    LET kept == {i \in 1..Len(text) : text[i] \notin Whitespace}
    IN IF kept = {} THEN <<>> ELSE SubSeq(text, SetMin(kept), SetMax(kept))

\* "if end < text_length": the end moved back to just after the last
\* occurrence of the first delimiter of the list that occurs in the window.
BoundaryEnd(text, start, end) ==
    LET hits == {k \in 1..Len(Delimiters) : rfind(text, Delimiters[k], start, end) # -1}
    IN IF end < Len(text) /\ hits # {}
       THEN rfind(text, Delimiters[SetMin(hits)], start, end)
                + Len(Delimiters[SetMin(hits)])
       ELSE end

\* "if start <= chunks[-1]['start'] if chunks else False: start = end"
NextStart(chunks, start, end) ==
    IF chunks # <<>> /\ start <= chunks[Len(chunks)].start THEN end ELSE start

\* The calls the claim is about: chunk_size > chunk_overlap >= 0. `previous`
\* is the start position of the iteration before, once there was one.
InitChunk ==
    /\ rag_config = [enable_sql_search |-> TRUE, enable_vector_search |-> TRUE,
                     enable_query_validation |-> TRUE]
    /\ db = NewConnection
    /\ pc = "idle"
    /\ call = NoCall
    /\ sync = NoSync
    /\ routing_result = NoRouting
    /\ idx = 0
    /\ agent_results = NoAgentResults
    /\ sql = NoSqlLocals
    /\ context = NoContext
    /\ result = NoResult
    /\ log = <<>>
    /\ before = EmptyStore
    /\ disc = NoStudy
    /\ catalog_rows = <<>>
    /\ procs = NoStudy
    /\ srch = NoStudy
    /\ batch = NoStudy
    /\ \E text \in ChunkTexts, chunk_size \in 1..MaxChunkSize :
         \E chunk_overlap \in 0..(chunk_size - 1) :
            chunking = [pc |-> "loop", text |-> text, chunk_size |-> chunk_size,
                        chunk_overlap |-> chunk_overlap, start |-> 0,
                        chunks |-> <<>>, iterated |-> FALSE, previous |-> 0]

chunkFrame == UNCHANGED <<mainVars, disc, catalog_rows, procs, srch, batch>>

\* One iteration of "while start < text_length".
ChunkIterate ==
    /\ chunking.pc = "loop"
    /\ chunking.start < Len(chunking.text)
    /\ LET text == chunking.text
           start == chunking.start
           end == BoundaryEnd(text, start, start + chunking.chunk_size)
           piece == Strip(Slice(text, start, end))
           chunks == IF piece # <<>>
                     THEN Append(chunking.chunks,
                                 [text |-> piece, start |-> start, end |-> end])
                     ELSE chunking.chunks
       IN chunking' = [chunking EXCEPT
                          !.chunks = chunks,
                          !.start = NextStart(chunks, end - chunking.chunk_overlap, end),
                          !.iterated = TRUE,
                          !.previous = start]
    /\ chunkFrame

\* "return chunks"
ChunkReturn ==
    /\ chunking.pc = "loop"
    /\ chunking.start >= Len(chunking.text)
    /\ chunking' = [chunking EXCEPT !.pc = "returned"]
    /\ chunkFrame

NextChunk ==
    \/ ChunkIterate
    \/ ChunkReturn

SpecChunk == InitChunk /\ [][NextChunk]_vars

\* C29: for every text and every chunk_size > chunk_overlap >= 0 the loop of
\* chunk_text makes forward progress: every iteration leaves the start
\* position beyond the one it began with, so the loop ends after at most
\* len(text) iterations.
C29_ChunkLoopAlwaysAdvances ==
    (chunking.pc = "loop" /\ chunking.iterated) => chunking.start > chunking.previous

====
